---- MODULE Spec2Model ----
(***************************************************************************)
(* Shape, stride and dilation bookkeeping of the preactivation ResNet (v2) *)
(* graph assembly in models/resnet_v2.py.  A tensor is abstracted to its   *)
(* spatial size (height = width) and its channel depth; a call of one of   *)
(* the constructors is followed statement by statement.                    *)
(***************************************************************************)
EXTENDS Integers, Naturals, Sequences, FiniteSets, TLC

\* ------------------------------------------------------------------ bounds
\* Largest requested output_stride tried (0 .. MaxOutputStride, and unset).
MaxOutputStride == 36
\* Largest number of units of a block list handed to resnet_v2 directly.
MaxUnits == 2

\* ------------------------------------------------------- program constants
\* Python's None (an argument left unset).
None == -1
\* Depth and kernel size of the root convolution conv1, and its stride.
RootDepth == 64
RootKernel == 7
RootStride == 2
\* Stride of the root max pooling pool1.
PoolStride == 2
\* The root block's own stride, which output_stride is divided by.
RootBlockStride == 4

\* ------------------------------------------------------------------ inputs
InputSizes == {224, 225}
NumClasses == {None, 5}
OutputStrides == {None} \cup (0 .. MaxOutputStride)
UnitStrides == {1, 2, 3}
Variants == {"resnet_v2_50", "resnet_v2_101", "resnet_v2_152", "resnet_v2_200"}

\* ----------------------------------------------------------------- helpers
CeilDiv(a, b) == (a + b - 1) \div b

Repeat(x, n) == [i \in 1 .. n |-> x]

RECURSIVE Product(_)
Product(s) == IF s = <<>> THEN 1 ELSE Head(s) * Product(Tail(s))

RECURSIVE Concat(_)
Concat(ss) == IF ss = <<>> THEN <<>> ELSE Head(ss) \o Concat(Tail(ss))

\* resnet_utils.Block: a scope name and the argument tuples
\* (depth, depth_bottleneck, stride) of its units; the unit function is
\* always bottleneck.
Block(scope, args) == [scope |-> scope, args |-> args]

\* All unit tuples of a block list, in block order then intra-block order.
AllUnits(bs) == Concat([i \in 1 .. Len(bs) |-> bs[i].args])

NominalStrides(bs) ==
    LET units == AllUnits(bs) IN [i \in 1 .. Len(units) |-> units[i][3]]

\* ------------------------------------------------------ variant block lists
\* Blocks50 with the stride-2 unit of block2 left at stride 1.
Blocks50_NoStride ==
    << Block("block1", Repeat(<<256, 64, 1>>, 2) \o << <<256, 64, 2>> >>),
       Block("block2", Repeat(<<512, 128, 1>>, 3) \o << <<512, 128, 1>> >>),
       Block("block3", Repeat(<<1024, 256, 1>>, 5) \o << <<1024, 256, 2>> >>),
       Block("block4", Repeat(<<2048, 512, 1>>, 3)) >>

Blocks50 ==
    << Block("block1", Repeat(<<256, 64, 1>>, 2) \o << <<256, 64, 2>> >>),
       Block("block2", Repeat(<<512, 128, 1>>, 3) \o << <<512, 128, 2>> >>),
       Block("block3", Repeat(<<1024, 256, 1>>, 5) \o << <<1024, 256, 2>> >>),
       Block("block4", Repeat(<<2048, 512, 1>>, 3)) >>

\* Blocks101 with the stride-2 unit of block3 left at stride 1.
Blocks101_NoStride ==
    << Block("block1", Repeat(<<256, 64, 1>>, 2) \o << <<256, 64, 2>> >>),
       Block("block2", Repeat(<<512, 128, 1>>, 3) \o << <<512, 128, 2>> >>),
       Block("block3", Repeat(<<1024, 256, 1>>, 23)),
       Block("block4", Repeat(<<2048, 512, 1>>, 3)) >>

Blocks101 ==
    << Block("block1", Repeat(<<256, 64, 1>>, 2) \o << <<256, 64, 2>> >>),
       Block("block2", Repeat(<<512, 128, 1>>, 3) \o << <<512, 128, 2>> >>),
       Block("block3", Repeat(<<1024, 256, 1>>, 22) \o << <<1024, 256, 2>> >>),
       Block("block4", Repeat(<<2048, 512, 1>>, 3)) >>

Blocks152 ==
    << Block("block1", Repeat(<<256, 64, 1>>, 2) \o << <<256, 64, 2>> >>),
       Block("block2", Repeat(<<512, 128, 1>>, 7) \o << <<512, 128, 2>> >>),
       Block("block3", Repeat(<<1024, 256, 1>>, 35) \o << <<1024, 256, 2>> >>),
       Block("block4", Repeat(<<2048, 512, 1>>, 3)) >>

\* Blocks200 with block4 given the depths of block3.
Blocks200_Shallow ==
    << Block("block1", Repeat(<<256, 64, 1>>, 2) \o << <<256, 64, 2>> >>),
       Block("block2", Repeat(<<512, 128, 1>>, 23) \o << <<512, 128, 2>> >>),
       Block("block3", Repeat(<<1024, 256, 1>>, 35) \o << <<1024, 256, 2>> >>),
       Block("block4", Repeat(<<1024, 256, 1>>, 3)) >>

Blocks200 ==
    << Block("block1", Repeat(<<256, 64, 1>>, 2) \o << <<256, 64, 2>> >>),
       Block("block2", Repeat(<<512, 128, 1>>, 23) \o << <<512, 128, 2>> >>),
       Block("block3", Repeat(<<1024, 256, 1>>, 35) \o << <<1024, 256, 2>> >>),
       Block("block4", Repeat(<<2048, 512, 1>>, 3)) >>

\* Block lists handed to the generator resnet_v2 directly: up to MaxUnits
\* units with strides in UnitStrides, split into two blocks of depths 64 and
\* 128 (either block may be empty).
StrideSeqs == UNION {[1 .. n -> UnitStrides] : n \in 0 .. MaxUnits}

SplitBlocks(ss, k) ==
    << Block("block1", [i \in 1 .. k |-> <<64, 16, ss[i]>>]),
       Block("block2", [i \in 1 .. Len(ss) - k |-> <<128, 32, ss[k + i]>>]) >>

DirectBlocks == UNION {{SplitBlocks(ss, k) : k \in 0 .. Len(ss)} : ss \in StrideSeqs}

\* ------------------------------------------------------ layer shape models
\* A tensor [batch, size, size, depth].
Tensor(size, depth) == [size |-> size, depth |-> depth]

\* conv2d of tefla.core.layers: n output channels, SAME padding.
Conv2d(x, n, stride) == Tensor(CeilDiv(x.size, stride), n)

\* resnet_utils.conv2d_same: SAME convolution at stride 1; otherwise explicit
\* padding by the effective kernel size minus one and a VALID convolution.
Conv2dSame(x, n, kernel, stride, rate) ==
    IF stride = 1
      THEN Tensor(x.size, n)
      ELSE LET kernel_effective == kernel + (kernel - 1) * (rate - 1)
               pad_total == kernel_effective - 1
           IN  Tensor(((x.size + pad_total - kernel_effective) \div stride) + 1, n)

\* resnet_utils.subsample: the input itself for factor 1, else a 1x1 max
\* pooling at stride factor (plain striding, no weights).
Subsample(x, factor) ==
    IF factor = 1 THEN x ELSE Tensor(CeilDiv(x.size, factor), x.depth)

\* max_pool with padding SAME at the root.
MaxPool(x) == Tensor(CeilDiv(x.size, PoolStride), x.depth)

\* batch_norm keeps the shape.
BatchNorm(x) == x

\* tf.reduce_mean over axes 1 and 2, keep_dims.
ReduceMean(x) == Tensor(1, x.depth)

\* The identity shortcut taken whatever the depths.
ShortcutIsIdentity_Always(depth, depth_in) == TRUE

\* The layer the bottleneck uses for its shortcut.
ShortcutIsIdentity(depth, depth_in) == depth = depth_in

ShortcutLayer(depth, depth_in, stride) ==
    IF ShortcutIsIdentity(depth, depth_in)
      THEN [op |-> "subsample", filter_size |-> 1, stride |-> stride,
            batch_norm |-> FALSE, activation |-> FALSE, on |-> "inputs"]
      ELSE [op |-> "conv2d", filter_size |-> 1, stride |-> stride,
            batch_norm |-> FALSE, activation |-> FALSE, on |-> "preact"]

Shortcut(inputs, preact, depth, stride) ==
    IF ShortcutLayer(depth, inputs.depth, stride).op = "subsample"
      THEN Subsample(inputs, stride)
      ELSE Conv2d(preact, depth, stride)

Residual(preact, depth, depth_bottleneck, stride, rate) ==
    LET conv1 == Conv2d(preact, depth_bottleneck, 1)
        conv2 == Conv2dSame(conv1, depth_bottleneck, 3, stride, rate)
    IN  Conv2d(conv2, depth, 1)

\* bottleneck: the shortcut, the residual and their sum (a sum of tensors of
\* different shapes is a graph-construction error).
bottleneck(inputs, depth, depth_bottleneck, stride, rate) ==
    LET preact == BatchNorm(inputs)
        shortcut == Shortcut(inputs, preact, depth, stride)
        residual == Residual(preact, depth, depth_bottleneck, stride, rate)
    IN  [layer |-> ShortcutLayer(depth, inputs.depth, stride),
         shortcut |-> shortcut,
         residual |-> residual,
         shapes_agree |-> shortcut = residual,
         output |-> residual]

\* --------------------------------------------------------------- the state
VARIABLES
    pc,                 \* the statement of resnet_v2 reached
    fn,                 \* the constructor that was called
    blocks,             \* the block list
    inputs,             \* the input tensor
    num_classes, global_pool, include_root_block,     \* the arguments
    requested,          \* output_stride as the caller passed it
    output_stride,      \* the local output_stride (divided at the root)
    net,                \* the current tensor
    current_stride,     \* stack_blocks_dense: cumulative stride
    rate,               \* stack_blocks_dense: atrous rate
    pos,                \* stack_blocks_dense: <<block, unit>> to process next
    trace,              \* the layers applied so far, in order
    result,             \* what the call returned
    err                 \* the ValueError raised

vars == <<pc, fn, blocks, inputs, num_classes, global_pool, include_root_block,
          requested, output_stride, net, current_stride, rate, pos, trace,
          result, err>>

arguments == <<fn, blocks, inputs, num_classes, global_pool, include_root_block,
          requested>>

\* A layer of the trace.  Units carry their stride/rate bookkeeping and the
\* shapes inside the bottleneck; the other layers leave those fields at 0.
NoShortcut ==
    [op |-> "none", filter_size |-> 0, stride |-> 0,
     batch_norm |-> FALSE, activation |-> FALSE, on |-> "none"]

Layer(stage, stride, in, out) ==
    [stage |-> stage, block |-> 0, unit |-> 0, depth |-> out.depth,
     nominal |-> stride, stride |-> stride, rate |-> 1,
     stride_before |-> 0, rate_before |-> 0, stride_after |-> 0, rate_after |-> 0,
     in |-> in, out |-> out,
     shortcut_layer |-> NoShortcut, shortcut |-> out, residual |-> out]

UnitLayer(b, u, unit, stride, r, cs0, r0, cs1, r1, in, bn) ==
    [stage |-> "unit", block |-> b, unit |-> u, depth |-> unit[1],
     nominal |-> unit[3], stride |-> stride, rate |-> r,
     stride_before |-> cs0, rate_before |-> r0, stride_after |-> cs1, rate_after |-> r1,
     in |-> in, out |-> bn.output,
     shortcut_layer |-> bn.layer, shortcut |-> bn.shortcut, residual |-> bn.residual]

Init ==
    /\ pc = "idle"
    /\ fn = "none"
    /\ blocks = <<>>
    /\ inputs = Tensor(0, 0)
    /\ num_classes = None
    /\ global_pool = TRUE
    /\ include_root_block = TRUE
    /\ requested = None
    /\ output_stride = None
    /\ net = Tensor(0, 0)
    /\ current_stride = 1
    /\ rate = 1
    /\ pos = <<1, 1>>
    /\ trace = <<>>
    /\ result = "none"
    /\ err = "none"

\* ------------------------------------------------------------ constructors
\* The call resnet_v2(inputs, ..., blocks, num_classes, global_pool,
\* output_stride, include_root_block).
Call(f, bs, x, nc, gp, os, root) ==
    /\ pc = "idle"
    /\ pc' = "enter"
    /\ fn' = f
    /\ blocks' = bs
    /\ inputs' = x
    /\ num_classes' = nc
    /\ global_pool' = gp
    /\ include_root_block' = root
    /\ requested' = os
    /\ output_stride' = os
    /\ UNCHANGED <<net, current_stride, rate, pos, trace, result, err>>

resnet_v2_50 ==
    /\ pc = "idle"
    /\ \E size \in InputSizes, nc \in NumClasses, gp \in BOOLEAN, os \in OutputStrides :
        Call("resnet_v2_50", Blocks50, Tensor(size, 3), nc, gp, os, TRUE)

resnet_v2_101 ==
    /\ pc = "idle"
    /\ \E size \in InputSizes, nc \in NumClasses, gp \in BOOLEAN, os \in OutputStrides :
        Call("resnet_v2_101", Blocks101, Tensor(size, 3), nc, gp, os, TRUE)

resnet_v2_152 ==
    /\ pc = "idle"
    /\ \E size \in InputSizes, nc \in NumClasses, gp \in BOOLEAN, os \in OutputStrides :
        Call("resnet_v2_152", Blocks152, Tensor(size, 3), nc, gp, os, TRUE)

resnet_v2_200 ==
    /\ pc = "idle"
    /\ \E size \in InputSizes, nc \in NumClasses, gp \in BOOLEAN, os \in OutputStrides :
        Call("resnet_v2_200", Blocks200, Tensor(size, 3), nc, gp, os, TRUE)

\* The generator called directly, with or without the root block (without it
\* the input is the result of an activation-less convolution).
resnet_v2 ==
    /\ pc = "idle"
    /\ \E bs \in DirectBlocks, size \in InputSizes, nc \in NumClasses,
       gp \in BOOLEAN, os \in OutputStrides, root \in BOOLEAN :
        Call("resnet_v2", bs, Tensor(size, IF root THEN 3 ELSE RootDepth),
             nc, gp, os, root)

\* ------------------------------------------------------ resnet_v2, the body
\* The validation testing for an even output_stride only.
ValidationFails_Even(os, root) == root /\ os # None /\ os % 2 # 0

\* The validation made without regard to include_root_block.
ValidationFails_AnyRoot(os, root) == os # None /\ os % RootBlockStride # 0

\* The multiple-of-4 validation is made only under include_root_block.
ValidationFails(os, root) == root /\ os # None /\ os % RootBlockStride # 0

\* The target left undivided.
StackTarget_NoDivide(os, root) == os

\* The target handed to stack_blocks_dense: output_stride /= 4 under the
\* root block (true division of a multiple of 4: exact), else as passed.
StackTarget(os, root) ==
    IF root /\ os # None THEN os \div RootBlockStride ELSE os

Enter ==
    /\ pc = "enter"
    /\ net' = inputs
    /\ IF ValidationFails(output_stride, include_root_block)
         THEN /\ pc' = "raised"
              /\ err' = "output_stride not a multiple of 4"
              /\ UNCHANGED output_stride
         ELSE /\ pc' = IF include_root_block THEN "conv1" ELSE "stack_blocks_dense"
              /\ output_stride' = StackTarget(output_stride, include_root_block)
              /\ UNCHANGED err
    /\ UNCHANGED <<arguments, current_stride, rate, pos, trace, result>>

Conv1 ==
    /\ pc = "conv1"
    /\ LET out == Conv2dSame(net, RootDepth, RootKernel, RootStride, 1)
       IN  /\ net' = out
           /\ trace' = Append(trace, Layer("conv1", RootStride, net, out))
    /\ pc' = "pool1"
    /\ UNCHANGED <<arguments, output_stride, current_stride, rate, pos, result, err>>

Pool1 ==
    /\ pc = "pool1"
    /\ LET out == MaxPool(net)
       IN  /\ net' = out
           /\ trace' = Append(trace, Layer("pool1", PoolStride, net, out))
    /\ pc' = "stack_blocks_dense"
    /\ UNCHANGED <<arguments, output_stride, current_stride, rate, pos, result, err>>

\* ------------------------------------------------- stack_blocks_dense
\* The first unit at or after <<b, u>>, skipping blocks without units;
\* <<Len(bs) + 1, 1>> when none is left.
RECURSIVE Seek(_, _, _)
Seek(bs, b, u) ==
    IF b > Len(bs) THEN <<b, 1>>
    ELSE IF u <= Len(bs[b].args) THEN <<b, u>>
    ELSE Seek(bs, b + 1, 1)

UnitsLeft(bs, p) == p[1] <= Len(bs)

\* The stride budget is used up: the unit is applied with stride 1 and its
\* stride goes into the rate.
BudgetReached(cs, target) == target # None /\ cs = target

\* The check after the last unit.
TargetMissed(cs, target) == target # None /\ cs # target

StackBegin ==
    /\ pc = "stack_blocks_dense"
    /\ current_stride' = 1
    /\ rate' = 1
    /\ pos' = Seek(blocks, 1, 1)
    /\ pc' = "units"
    /\ UNCHANGED <<arguments, output_stride, net, trace, result, err>>

StackUnit ==
    /\ pc = "units"
    /\ UnitsLeft(blocks, pos)
    /\ LET unit == blocks[pos[1]].args[pos[2]]
           depth == unit[1]
           depth_bottleneck == unit[2]
           stride == unit[3]
       IN  IF BudgetReached(current_stride, output_stride)
             THEN LET bn == bottleneck(net, depth, depth_bottleneck, 1, rate)
                  IN  /\ net' = bn.output
                      /\ rate' = rate * stride
                      /\ UNCHANGED current_stride
                      /\ trace' = Append(trace,
                            UnitLayer(pos[1], pos[2], unit, 1, rate,
                                      current_stride, rate, current_stride,
                                      rate * stride, net, bn))
                      /\ IF bn.shapes_agree
                           THEN pc' = "units" /\ UNCHANGED err
                           ELSE pc' = "raised" /\ err' = "shapes differ"
             ELSE LET bn == bottleneck(net, depth, depth_bottleneck, stride, 1)
                  IN  /\ net' = bn.output
                      /\ current_stride' = current_stride * stride
                      /\ UNCHANGED rate
                      /\ trace' = Append(trace,
                            UnitLayer(pos[1], pos[2], unit, stride, 1,
                                      current_stride, rate,
                                      current_stride * stride, rate, net, bn))
                      /\ IF bn.shapes_agree
                           THEN pc' = "units" /\ UNCHANGED err
                           ELSE pc' = "raised" /\ err' = "shapes differ"
    /\ pos' = Seek(blocks, pos[1], pos[2] + 1)
    /\ UNCHANGED <<arguments, output_stride, result>>

StackEnd ==
    /\ pc = "units"
    /\ ~UnitsLeft(blocks, pos)
    /\ IF TargetMissed(current_stride, output_stride)
         THEN pc' = "raised" /\ err' = "output_stride cannot be reached"
         ELSE pc' = "postnorm" /\ UNCHANGED err
    /\ UNCHANGED <<arguments, output_stride, net, current_stride, rate, pos,
                   trace, result>>

\* --------------------------------------------- resnet_v2, after the stack
HasHead(nc) == nc # None

\* The head tested before the pooling.
AfterPostnorm_HeadFirst(gp, nc) ==
    IF HasHead(nc) THEN "logits" ELSE IF gp THEN "pool5" ELSE "return"

AfterPostnorm(gp, nc) ==
    IF gp THEN "pool5" ELSE IF HasHead(nc) THEN "logits" ELSE "return"

AfterPool5(nc) == IF HasHead(nc) THEN "logits" ELSE "return"

AfterLogits(nc) == IF HasHead(nc) THEN "predictions" ELSE "return"

Postnorm ==
    /\ pc = "postnorm"
    /\ LET out == BatchNorm(net)
       IN  /\ net' = out
           /\ trace' = Append(trace, Layer("postnorm", 1, net, out))
    /\ pc' = AfterPostnorm(global_pool, num_classes)
    /\ UNCHANGED <<arguments, output_stride, current_stride, rate, pos, result, err>>

Pool5 ==
    /\ pc = "pool5"
    /\ LET out == ReduceMean(net)
       IN  /\ net' = out
           /\ trace' = Append(trace, Layer("pool5", 1, net, out))
    /\ pc' = AfterPool5(num_classes)
    /\ UNCHANGED <<arguments, output_stride, current_stride, rate, pos, result, err>>

Logits ==
    /\ pc = "logits"
    /\ LET out == Conv2d(net, num_classes, 1)
       IN  /\ net' = out
           /\ trace' = Append(trace, Layer("logits", 1, net, out))
    /\ pc' = AfterLogits(num_classes)
    /\ UNCHANGED <<arguments, output_stride, current_stride, rate, pos, result, err>>

\* softmax gives predictions; net stays the logits.
Predictions ==
    /\ pc = "predictions"
    /\ trace' = Append(trace, Layer("predictions", 1, net, net))
    /\ pc' = "return"
    /\ UNCHANGED <<arguments, output_stride, net, current_stride, rate, pos,
                   result, err>>

Return ==
    /\ pc = "return"
    /\ result' = "end_points"
    /\ pc' = "done"
    /\ UNCHANGED <<arguments, output_stride, net, current_stride, rate, pos,
                   trace, err>>

Next ==
    \/ resnet_v2_50
    \/ resnet_v2_101
    \/ resnet_v2_152
    \/ resnet_v2_200
    \/ resnet_v2
    \/ Enter
    \/ Conv1
    \/ Pool1
    \/ StackBegin
    \/ StackUnit
    \/ StackEnd
    \/ Postnorm
    \/ Pool5
    \/ Logits
    \/ Predictions
    \/ Return

Spec == Init /\ [][Next]_vars

\* ------------------------------------------------------------ properties
IsVariant == fn \in Variants

\* The statements after stack_blocks_dense returned.
PastStack == pc \in {"postnorm", "pool5", "logits", "predictions", "return", "done"}

UnitLayers == {i \in 1 .. Len(trace) : trace[i].stage = "unit"}

\* The product of the strides applied by the first i layers: the spatial
\* downsampling from the input to the output of layer i.
DownsampleAt(i) == Product([j \in 1 .. i |-> trace[j].stride])

Downsample == DownsampleAt(Len(trace))

\* A target is reachable when the nominal strides of some prefix of the
\* units multiply to it.
Reachable(bs, target) ==
    LET strides == NominalStrides(bs)
    IN  \E k \in 0 .. Len(strides) : Product(SubSeq(strides, 1, k)) = target

\* The stride the block stack has to reach for the requested output_stride.
RequestedOfStack ==
    IF include_root_block THEN requested \div RootBlockStride ELSE requested

\* C1: a variant constructor called with output_stride 8 or 16 does not fail,
\* the cumulative stride from the input to the output of the last block (4
\* from the root times the stride reached in the stack) is the requested one,
\* and every stride-2 unit met once the budget is reached is applied with
\* stride 1 and doubles the rate.
C1_RequestedStrideReached ==
    (IsVariant /\ requested \in {8, 16}) =>
        /\ pc # "raised"
        /\ PastStack =>
             /\ RootBlockStride * current_stride = requested
             /\ Downsample = requested
        /\ pc = "postnorm" => net.size = CeilDiv(inputs.size, requested)
        /\ \A i \in UnitLayers :
             (trace[i].nominal = 2 /\ DownsampleAt(i - 1) = requested) =>
                 /\ trace[i].stride = 1
                 /\ trace[i].rate = trace[i].rate_before
                 /\ trace[i].rate_after = 2 * trace[i].rate_before

C1_Witness ==
    /\ fn = "resnet_v2_50" /\ requested = 8 /\ pc = "done"
    /\ rate = 4
    /\ \E i \in UnitLayers : trace[i].nominal = 2 /\ trace[i].stride = 1

\* C2: a variant constructor called without output_stride does not fail,
\* applies no unit with a rate other than 1, and downsamples by 32 up to the
\* output of the last block: 4 at the root, 2 at the last unit of each of
\* block1, block2 and block3.
C2_NominalStride32 ==
    (IsVariant /\ requested = None) =>
        /\ pc # "raised"
        /\ rate = 1
        /\ \A i \in UnitLayers : trace[i].rate = 1 /\ trace[i].rate_after = 1
        /\ PastStack =>
             /\ Downsample = 32
             /\ DownsampleAt(2) = 4
             /\ {<<trace[i].block, trace[i].unit>> :
                    i \in {j \in UnitLayers : trace[j].stride # 1}}
                  = {<<b, Len(blocks[b].args)>> : b \in 1 .. 3}
             /\ \A i \in UnitLayers : trace[i].stride \in {1, 2}
        /\ pc = "postnorm" => net.size = CeilDiv(inputs.size, 32)

C2_Witness ==
    /\ fn = "resnet_v2_101" /\ requested = None /\ pc = "postnorm"
    /\ inputs.size = 224 /\ net.size = 7

C4_UnreachableTargetFails ==
    /\ err = "output_stride cannot be reached" =>
         /\ pc = "raised"
         /\ requested # None
         /\ ~Reachable(blocks, RequestedOfStack)
         /\ Cardinality(UnitLayers) = Len(AllUnits(blocks))
         /\ \A i \in 1 .. Len(trace) : trace[i].stage \in {"conv1", "pool1", "unit"}
         /\ result = "none"
    /\ (pc = "units" /\ ~UnitsLeft(blocks, pos) /\ requested # None) =>
         (TargetMissed(current_stride, output_stride)
            <=> ~Reachable(blocks, RequestedOfStack))
    /\ (PastStack /\ requested # None) => Reachable(blocks, RequestedOfStack)
    /\ (IsVariant /\ requested # None /\ requested % 4 = 0 /\ pc # "enter") =>
         /\ Reachable(blocks, RequestedOfStack) <=> requested \in {4, 8, 16, 32}
         /\ requested \notin {4, 8, 16, 32} => ~PastStack
         /\ requested \in {4, 8, 16, 32} => pc # "raised"

C4_Witness ==
    /\ IsVariant /\ requested = 12 /\ pc = "raised"
    /\ err = "output_stride cannot be reached"
    /\ Cardinality(UnitLayers) = Len(AllUnits(blocks))

\* C5: a variant constructor called with an output_stride that is not a
\* multiple of 4 fails with the configuration error before any layer is
\* applied: no root convolution, no pooling, no unit, and nothing returned.
C5_VariantRejectsNonMultipleOf4 ==
    (IsVariant /\ requested # None /\ requested % 4 # 0) =>
        /\ pc \in {"enter", "raised"}
        /\ pc = "raised" => err = "output_stride not a multiple of 4"
        /\ trace = <<>>
        /\ result = "none"

C5_Witness ==
    /\ IsVariant /\ requested = 6 /\ pc = "raised"
    /\ err = "output_stride not a multiple of 4" /\ trace = <<>>

\* C6 as stated: whenever an output_stride that is not a multiple of 4 is
\* requested the call fails, whatever include_root_block, global_pool and
\* num_classes are.
C6_AlwaysRejectsNonMultipleOf4 ==
    (requested # None /\ requested % 4 # 0) => ~PastStack

\* C6 amended: with include_root_block set, an output_stride that is not a
\* multiple of 4 makes the call fail with the configuration error, whatever
\* global_pool and num_classes are; without the root block the validation is
\* not made, the stride goes to the stack as passed, and the call fails only
\* when the stack cannot reach it.
C6_RejectsNonMultipleOf4UnderRoot ==
    /\ (include_root_block /\ requested # None /\ requested % 4 # 0) =>
         /\ pc \in {"enter", "raised"}
         /\ pc = "raised" => err = "output_stride not a multiple of 4"
    /\ (~include_root_block /\ pc # "enter") =>
         /\ err # "output_stride not a multiple of 4"
         /\ output_stride = requested
         /\ (pc = "raised" /\ err = "output_stride cannot be reached") =>
              ~Reachable(blocks, requested)

C6_Witness ==
    /\ fn = "resnet_v2" /\ include_root_block /\ requested = 6
    /\ ~global_pool /\ num_classes = None
    /\ pc = "raised" /\ err = "output_stride not a multiple of 4"

\* C7: for every variant the four blocks have output depths 256, 512, 1024,
\* 2048 and bottleneck depths 64, 128, 256, 512, one stride-2 unit, the last
\* of each of block1 to block3 and none in block4; the variants differ in
\* the unit counts alone; with output_stride unset, 4, 8, 16 or 32 the call
\* does not fail and the tensor leaving the last unit has depth 2048.
VariantDepths == <<256, 512, 1024, 2048>>

VariantBottleneckDepths == <<64, 128, 256, 512>>

VariantUnitCounts ==
    [v \in Variants |->
        CASE v = "resnet_v2_50" -> <<3, 4, 6, 3>>
          [] v = "resnet_v2_101" -> <<3, 4, 23, 3>>
          [] v = "resnet_v2_152" -> <<3, 8, 36, 3>>
          [] v = "resnet_v2_200" -> <<3, 24, 36, 3>>]

C7_VariantDepth2048 ==
    IsVariant =>
        /\ Len(blocks) = 4
        /\ \A b \in 1 .. 4 :
             /\ blocks[b].scope = <<"block1", "block2", "block3", "block4">>[b]
             /\ Len(blocks[b].args) = VariantUnitCounts[fn][b]
             /\ \A u \in 1 .. Len(blocks[b].args) :
                  /\ blocks[b].args[u][1] = VariantDepths[b]
                  /\ blocks[b].args[u][2] = VariantBottleneckDepths[b]
                  /\ blocks[b].args[u][3] =
                       IF b < 4 /\ u = Len(blocks[b].args) THEN 2 ELSE 1
        /\ \A i \in UnitLayers : trace[i].out.depth = VariantDepths[trace[i].block]
        /\ requested \in {None, 4, 8, 16, 32} => pc # "raised"
        /\ pc = "postnorm" =>
             /\ net.depth = 2048
             /\ trace[Len(trace)].stage = "unit"
             /\ trace[Len(trace)].block = 4
             /\ trace[Len(trace)].unit = Len(blocks[4].args)
             /\ trace[Len(trace)].out.depth = 2048

C7_Witness ==
    /\ fn = "resnet_v2_200" /\ requested = 32 /\ pc = "postnorm"
    /\ net.depth = 2048 /\ Cardinality(UnitLayers) = 66

\* C8: in every bottleneck unit the shortcut is a 1x1 convolution of the
\* preactivation at the unit's stride, without normalization and activation,
\* exactly when the output depth differs from the input depth, and the input
\* subsampled by striding exactly when the depths are equal; either way the
\* shortcut has the unit's depth and the spatial size of the residual, so
\* the sum is defined, and with equal depth and stride 1 the output has the
\* shape of the input.
C8_ShortcutProjectionIffDepthDiffers ==
    /\ err # "shapes differ"
    /\ \A i \in UnitLayers :
         LET e == trace[i] IN
         /\ e.shortcut_layer.op = "conv2d" <=> e.depth # e.in.depth
         /\ e.shortcut_layer.op = "subsample" <=> e.depth = e.in.depth
         /\ e.shortcut_layer.op = "conv2d" =>
              /\ e.shortcut_layer.filter_size = 1
              /\ e.shortcut_layer.stride = e.stride
              /\ ~e.shortcut_layer.batch_norm
              /\ ~e.shortcut_layer.activation
              /\ e.shortcut_layer.on = "preact"
         /\ e.shortcut_layer.op = "subsample" =>
              /\ e.shortcut_layer.stride = e.stride
              /\ e.shortcut_layer.on = "inputs"
         /\ e.shortcut.depth = e.depth
         /\ e.residual.depth = e.depth
         /\ e.shortcut.size = e.residual.size
         /\ e.shortcut.size = CeilDiv(e.in.size, e.stride)
         /\ e.out = e.shortcut
         /\ (e.depth = e.in.depth /\ e.stride = 1) => e.out = e.in

C8_Witness ==
    /\ fn = "resnet_v2_50" /\ requested = None /\ pc = "done"
    /\ \E i \in UnitLayers :
         /\ trace[i].shortcut_layer.op = "conv2d"
         /\ trace[i].in.depth = 64 /\ trace[i].depth = 256
    /\ \E i \in UnitLayers :
         /\ trace[i].shortcut_layer.op = "subsample" /\ trace[i].stride = 2
         /\ trace[i].in.size = 56 /\ trace[i].out.size = 28
    /\ \E i \in UnitLayers :
         /\ trace[i].shortcut_layer.op = "subsample" /\ trace[i].stride = 1
         /\ trace[i].out = trace[i].in

\* C9: the layers are applied in the order conv1, pool1, every unit of every
\* block once (block order, then unit order), postnorm, pool5, logits,
\* predictions; conv1 and pool1 exactly under include_root_block, pool5
\* exactly under global_pool, logits and predictions exactly when
\* num_classes is given, postnorm always; a call without output_stride does
\* not fail, and a call that returns has applied every layer of that list.
ExpectedUnits(bs) ==
    Concat([b \in 1 .. Len(bs) |->
              [u \in 1 .. Len(bs[b].args) |-> <<"unit", b, u>>]])

ExpectedLayers ==
    (IF include_root_block THEN << <<"conv1", 0, 0>>, <<"pool1", 0, 0>> >> ELSE <<>>)
    \o ExpectedUnits(blocks)
    \o << <<"postnorm", 0, 0>> >>
    \o (IF global_pool THEN << <<"pool5", 0, 0>> >> ELSE <<>>)
    \o (IF num_classes # None
          THEN << <<"logits", 0, 0>>, <<"predictions", 0, 0>> >> ELSE <<>>)

AppliedLayers ==
    [i \in 1 .. Len(trace) |-> <<trace[i].stage, trace[i].block, trace[i].unit>>]

C9_StageOrder ==
    /\ Len(trace) <= Len(ExpectedLayers)
    /\ AppliedLayers = SubSeq(ExpectedLayers, 1, Len(trace))
    /\ pc = "done" => (AppliedLayers = ExpectedLayers /\ result = "end_points")
    /\ pc # "done" => result = "none"
    /\ PastStack /\ pc # "postnorm" =>
         \E i \in 1 .. Len(trace) :
             /\ trace[i].stage = "postnorm"
             /\ i > 1 => trace[i - 1].stage \in {"unit", "pool1"}
             /\ \A j \in UnitLayers : j < i
    /\ requested = None => pc # "raised"

C9_Witness ==
    /\ pc = "done" /\ fn = "resnet_v2" /\ requested = None
    /\ ~include_root_block /\ global_pool /\ num_classes # None
    /\ Cardinality(UnitLayers) = 2 /\ Len(trace) = 6

\* C10: after every unit the cumulative stride times the rate is the product
\* of the nominal strides of the units processed so far; the rate is 1 as
\* long as the cumulative stride has not met the target; once it has, the
\* cumulative stride stays and every later unit is applied with stride 1;
\* for a variant with output_stride 4, 8, 16 or 32 the rate after the last
\* unit is 32 divided by the output_stride.
C10_StrideTimesRateConserved ==
    /\ pc \in {"units", "postnorm"} =>
         current_stride * rate =
            Product(SubSeq(NominalStrides(blocks), 1, Cardinality(UnitLayers)))
    /\ \A i \in UnitLayers :
         LET e == trace[i] IN
         /\ e.stride_after * e.rate_after = e.stride_before * e.rate_before * e.nominal
         /\ (output_stride = None \/ e.stride_before # output_stride) =>
              (e.rate_before = 1 /\ e.rate_after = 1 /\ e.stride = e.nominal)
         /\ (output_stride # None /\ e.stride_before = output_stride) =>
              (e.stride_after = e.stride_before /\ e.stride = 1)
         /\ \A j \in UnitLayers :
              (j < i /\ output_stride # None /\ trace[j].stride_after = output_stride) =>
                  (e.stride_after = output_stride /\ e.stride = 1)
    /\ (pc = "units" /\ (output_stride = None \/ current_stride # output_stride)) =>
         rate = 1
    /\ (IsVariant /\ requested \in {4, 8, 16, 32} /\ PastStack) =>
         rate * requested = 32

C10_Witness ==
    /\ fn = "resnet_v2_101" /\ requested = 4 /\ pc = "postnorm"
    /\ current_stride = 1 /\ rate = 8

====
